---- MODULE Spec2Model ----
(***************************************************************************)
(* Model of src/src/system.rs (quebin31/ant-system): AntSystem::new,       *)
(* AntSystem::run, build_solution, compute_cost and update_pheromones.     *)
(*                                                                         *)
(* f64 values are modelled bit for bit: a significand of 53 bits and an    *)
(* exponent, every operation rounded to nearest even, with 0, Inf          *)
(* (1.0 / 0.0) and NaN (0.0 / 0.0).                                        *)
(* Matrices are functions [0..rows-1 -> [0..cols-1 -> value]]; a Vec is a  *)
(* sequence (1-indexed) of 0-based city indices.                           *)
(*                                                                         *)
(* The trace sink is any std::io::Write: each write may return Err.  The   *)
(* text of the trace is not modelled; to_char_index and to_display_path    *)
(* (crate::utils) are taken to succeed.                                    *)
(***************************************************************************)
EXTENDS Integers, Sequences, FiniteSets, TLC

\* ------------------------------------------------------------------ bounds
\* largest number of rows and of columns of the cost matrix
MaxN == 4
\* largest population size
MaxAnts == 2
\* cap on the calls of run
MaxRuns == 2
\* cap on the random draws consumed over all calls of run
MaxDraws == 4

\* ------------------------------------------------------------ f64 values
\* A finite positive f64 is <<e, hi, lo>>: the value m * 2^(e - 52) with the
\* 53-bit significand m = hi * 2^26 + lo, 2^26 <= hi < 2^27, 0 <= lo < 2^26.
\* Every operation rounds to nearest, ties to even, as IEEE 754 binary64 does.
\* The code has no subtraction and no negative input; the exponent is not
\* limited (no value of the model leaves the normal range).
Zero == <<0, 0, 0>>
Inf == <<1, 0, 0>>
NaN == <<2, 0, 0>>

IsZero(x) == x = Zero
IsNaN(x) == x = NaN
IsInf(x) == x = Inf

\* the integer n as f64, 0 <= n < 2^26
RECURSIVE Log2(_)
Log2(n) == IF n < 2 THEN 0 ELSE 1 + Log2(n \div 2)

FInt(n) == IF n = 0 THEN Zero ELSE <<Log2(n), n * 2^(26 - Log2(n)), 0>>

One == FInt(1)

\* the 53-bit significand <<hi, lo>> with the bits below it summarised by the
\* round bit and the sticky flag, rounded to nearest even
Round(e, hi, lo, round, sticky) ==
    IF round = 1 /\ (sticky \/ lo % 2 = 1)
    THEN IF lo + 1 < 2^26 THEN <<e, hi, lo + 1>>
         ELSE IF hi + 1 < 2^27 THEN <<e, hi + 1, 0>>
         ELSE <<e + 1, 2^26, 0>>
    ELSE <<e, hi, lo>>

FAddFinite(x, y) ==
    LET d == x[1] - y[1]
        ahi == x[2] * 4 + (x[3] \div 2^24)
        alo == (x[3] % 2^24) * 4
        bhi0 == y[2] * 4 + (y[3] \div 2^24)
        blo0 == (y[3] % 2^24) * 4
        bhi == IF d < 26 THEN bhi0 \div 2^d ELSE 0
        blo == IF d < 26 THEN (blo0 \div 2^d) + (bhi0 % 2^d) * 2^(26 - d)
               ELSE bhi0 \div 2^(d - 26)
        lost == IF d < 26 THEN blo0 % 2^d # 0
                ELSE blo0 # 0 \/ bhi0 % 2^(d - 26) # 0
        slo == (alo + blo) % 2^26
        shi == ahi + bhi + ((alo + blo) \div 2^26)
    IN IF d > 55 THEN x
       ELSE IF shi >= 2^29
       THEN Round(x[1] + 1, shi \div 8, (shi % 8) * 2^23 + (slo \div 8),
                  (slo \div 4) % 2, slo % 4 # 0 \/ lost)
       ELSE Round(x[1], shi \div 4, (shi % 4) * 2^24 + (slo \div 4),
                  (slo \div 2) % 2, slo % 2 # 0 \/ lost)

FAdd(x, y) ==
    IF IsNaN(x) \/ IsNaN(y) THEN NaN
    ELSE IF IsInf(x) \/ IsInf(y) THEN Inf
    ELSE IF IsZero(x) THEN y
    ELSE IF IsZero(y) THEN x
    ELSE IF x[1] >= y[1] THEN FAddFinite(x, y) ELSE FAddFinite(y, x)

\* the product of the significands in limbs of 13 bits
FMulFinite(x, y) ==
    LET B == 2^13
        a0 == x[3] % B
        a1 == x[3] \div B
        a2 == x[2] % B
        a3 == x[2] \div B
        b0 == y[3] % B
        b1 == y[3] \div B
        b2 == y[2] % B
        b3 == y[2] \div B
        t0 == a0 * b0
        t1 == a0 * b1 + a1 * b0 + (t0 \div B)
        t2 == a0 * b2 + a1 * b1 + a2 * b0 + (t1 \div B)
        t3 == a0 * b3 + a1 * b2 + a2 * b1 + a3 * b0 + (t2 \div B)
        t4 == a1 * b3 + a2 * b2 + a3 * b1 + (t3 \div B)
        t5 == a2 * b3 + a3 * b2 + (t4 \div B)
        t6 == a3 * b3 + (t5 \div B)
        low == t0 % B # 0 \/ t1 % B # 0 \/ t2 % B # 0
        c3 == t3 % B
        plo == (t4 % B) + (t5 % B) * B
        phi == t6
    IN IF phi >= 2^27
       THEN Round(x[1] + y[1] + 1, phi \div 2, (phi % 2) * 2^25 + (plo \div 2),
                  plo % 2, c3 # 0 \/ low)
       ELSE Round(x[1] + y[1], phi, plo, c3 \div 2^12, c3 % 2^12 # 0 \/ low)

FMul(x, y) ==
    IF IsNaN(x) \/ IsNaN(y) THEN NaN
    ELSE IF IsInf(x) THEN (IF IsZero(y) THEN NaN ELSE Inf)
    ELSE IF IsInf(y) THEN (IF IsZero(x) THEN NaN ELSE Inf)
    ELSE IF IsZero(x) \/ IsZero(y) THEN Zero
    ELSE FMulFinite(x, y)

\* n steps of the long division of the remainder <<rhi, rlo>> by <<dhi, dlo>>:
\* <<quotient bits, rhi, rlo>>
RECURSIVE DivBits(_, _, _, _, _, _)
DivBits(n, quot, rhi, rlo, dhi, dlo) ==
    IF n = 0 THEN <<quot, rhi, rlo>>
    ELSE LET thi == 2 * rhi + ((2 * rlo) \div 2^26)
             tlo == (2 * rlo) % 2^26
         IN IF thi > dhi \/ (thi = dhi /\ tlo >= dlo)
            THEN IF tlo >= dlo
                 THEN DivBits(n - 1, 2 * quot + 1, thi - dhi, tlo - dlo, dhi, dlo)
                 ELSE DivBits(n - 1, 2 * quot + 1, thi - dhi - 1, tlo + 2^26 - dlo, dhi, dlo)
            ELSE DivBits(n - 1, 2 * quot, thi, tlo, dhi, dlo)

FDivFinite(x, y) ==
    LET ge == x[2] > y[2] \/ (x[2] = y[2] /\ x[3] >= y[3])
        \* the numerator, doubled when it is below the denominator
        nhi == IF ge THEN x[2] ELSE 2 * x[2] + ((2 * x[3]) \div 2^26)
        nlo == IF ge THEN x[3] ELSE (2 * x[3]) % 2^26
        rhi == IF nlo >= y[3] THEN nhi - y[2] ELSE nhi - y[2] - 1
        rlo == IF nlo >= y[3] THEN nlo - y[3] ELSE nlo + 2^26 - y[3]
        top == DivBits(26, 1, rhi, rlo, y[2], y[3])
        bot == DivBits(26, 0, top[2], top[3], y[2], y[3])
        last == DivBits(1, 0, bot[2], bot[3], y[2], y[3])
    IN Round(x[1] - y[1] - (IF ge THEN 0 ELSE 1), top[1], bot[1], last[1],
             last[2] # 0 \/ last[3] # 0)

FDiv(x, y) ==
    IF IsNaN(x) \/ IsNaN(y) THEN NaN
    ELSE IF IsInf(x) THEN (IF IsInf(y) THEN NaN ELSE Inf)
    ELSE IF IsInf(y) THEN Zero
    ELSE IF IsZero(y) THEN (IF IsZero(x) THEN NaN ELSE Inf)
    ELSE IF IsZero(x) THEN Zero
    ELSE FDivFinite(x, y)

\* x < y on f64: false whenever an operand is NaN
FLt(x, y) ==
    IF IsNaN(x) \/ IsNaN(y) THEN FALSE
    ELSE IF IsInf(x) THEN FALSE
    ELSE IF IsInf(y) THEN TRUE
    ELSE IF IsZero(y) THEN FALSE
    ELSE IF IsZero(x) THEN TRUE
    ELSE \/ x[1] < y[1]
         \/ x[1] = y[1] /\ x[2] < y[2]
         \/ x[1] = y[1] /\ x[2] = y[2] /\ x[3] < y[3]

\* x.powf(k) for the exponents 0.0 and 1.0, where pow is exact: 1.0 for every
\* x (NaN too) and x itself
FPow(x, k) == IF k = 0 THEN One ELSE x

\* the f64 nearest to n / d
F(n, d) == FDiv(FInt(n), FInt(d))

\* ------------------------------------------------------------ free helpers
\* mutant: the shape is taken square from the number of rows
init_pheromone_square(rows, cols, value) ==
    [i \in 0..(rows - 1) |-> [j \in 0..(rows - 1) |-> IF i = j THEN Zero ELSE value]]

\* mutant: the diagonal is filled like every other cell
init_pheromone_full(rows, cols, value) ==
    [i \in 0..(rows - 1) |-> [j \in 0..(cols - 1) |-> value]]

init_pheromone_matrix(rows, cols, value) ==
    [i \in 0..(rows - 1) |-> [j \in 0..(cols - 1) |-> IF i = j THEN Zero ELSE value]]

compute_visiblity_matrix(d) ==
    [i \in DOMAIN d |-> [j \in DOMAIN d[i] |-> FDiv(One, d[i][j])]]

\* m[[a, b]] is in bounds
InBounds(m, a, b) == a \in DOMAIN m /\ b \in DOMAIN m[0]

RECURSIVE CostFold(_, _, _, _)
CostFold(solution, d, k, acc) ==
    IF k >= Len(solution) THEN acc
    ELSE CostFold(solution, d, k + 1, FAdd(acc, d[solution[k]][solution[k + 1]]))

\* mutant: the cost of the closed tour, with the edge back to the start
compute_cost_closed(solution, d) ==
    LET open == CostFold(solution, d, 1, Zero)
        last == solution[Len(solution)]
    IN IF Len(solution) >= 2 /\ InBounds(d, last, solution[1])
       THEN FAdd(open, d[last][solution[1]])
       ELSE open

compute_cost(solution, d) == CostFold(solution, d, 1, Zero)

\* p.windows(2).map(|edge| (edge[0], edge[1]))
Edges(p) == [k \in 1..(Len(p) - 1) |-> <<p[k], p[k + 1]>>]

SeqContains(s, x) == \E k \in 1..Len(s) : s[k] = x

\* ------------------------------------------------------------------ inputs
\* cost matrices: |i - j| in every shape (the matrix [[0,1,2],[1,0,1],[2,1,0]]
\* for 3x3) and an asymmetric square one
DistSym(rows, cols) ==
    [i \in 0..(rows - 1) |-> [j \in 0..(cols - 1) |->
        FInt(IF i < j THEN j - i ELSE i - j)]]

DistAsym(rows, cols) ==
    [i \in 0..(rows - 1) |-> [j \in 0..(cols - 1) |->
        FInt(IF i = j THEN 0 ELSE 1 + ((i + 2 * j) % 3))]]

Matrices ==
    {DistSym(r, c) : r \in 1..MaxN, c \in 1..MaxN} \cup {DistAsym(r, r) : r \in 1..MaxN}

\* the scalar fields of AntProps: alpha = beta = 1, rho = 0.5, Q = 1 and
\* initial pheromone 1, and one variation of each of alpha, rho and the
\* initial pheromone (the exponents are 0 or 1)
Props ==
    {[alpha |-> 1, beta |-> 1, rho |-> F(1, 2), q |-> One, initial_pheromone |-> One],
     [alpha |-> 0, beta |-> 1, rho |-> F(1, 2), q |-> One, initial_pheromone |-> One],
     [alpha |-> 1, beta |-> 1, rho |-> Zero, q |-> One, initial_pheromone |-> One],
     [alpha |-> 1, beta |-> 1, rho |-> F(1, 2), q |-> One, initial_pheromone |-> Zero]}
\* values thread_rng().gen_range(0., 1.) can return
Draws == {Zero, F(1, 2), F(3, 4)}

\* ------------------------------------------------------------------- state
VARIABLES
    pc,                  \* position of the caller / of run
    alpha, beta, rho, q, \* AntProps / AntSystem parameters
    initial_pheromone,   \* AntProps.initial_pheromone
    size, initial,       \* population size, start city
    distances, visibility, pheromones,
    ant,                 \* loop variable of "for ant in 0..self.size"
    visited,             \* build_solution: the path under construction
    solutions,           \* run: paths built so far
    solutions_to_return, \* run: (path, cost) pairs
    costs,               \* update_pheromones: cost per ant
    cell,                \* update_pheromones: cells (r, c) already passed
    rand,                \* the last random draw
    ndraws,              \* draws consumed by the current call of run
    drawn,               \* draws consumed since construction
    before,              \* pheromones at the entry of the current call
    runs                 \* calls of run started

vars == <<pc, alpha, beta, rho, q, initial_pheromone, size, initial, distances,
          visibility, pheromones, ant, visited, solutions, solutions_to_return,
          costs, cell, rand, ndraws, drawn, before, runs>>

config == <<alpha, beta, rho, q, initial_pheromone, size, initial, distances>>

Rows(m) == Cardinality(DOMAIN m)
Cols(m) == Cardinality(DOMAIN m[0])
Square(m) == Rows(m) = Cols(m)

Init ==
    /\ pc = "new"
    /\ \E p \in Props :
          /\ alpha = p.alpha
          /\ beta = p.beta
          /\ rho = p.rho
          /\ q = p.q
          /\ initial_pheromone = p.initial_pheromone
    /\ size \in 0..MaxAnts
    /\ initial \in 0..(MaxN - 1)
    /\ distances \in Matrices
    /\ visibility = <<>>
    /\ pheromones = <<>>
    /\ ant = 0
    /\ visited = <<>>
    /\ solutions = <<>>
    /\ solutions_to_return = <<>>
    /\ costs = <<>>
    /\ cell = 0
    /\ rand = Zero
    /\ ndraws = 0
    /\ drawn = 0
    /\ before = <<>>
    /\ runs = 0

\* -------------------------------------------------------- AntSystem::new
New ==
    /\ pc = "new"
    /\ pheromones' = init_pheromone_matrix(Rows(distances), Cols(distances),
                                           initial_pheromone)
    /\ visibility' = compute_visiblity_matrix(distances)
    /\ pc' = "idle"
    /\ UNCHANGED <<config, ant, visited, solutions, solutions_to_return, costs,
                   cell, rand, ndraws, drawn, before, runs>>

\* ------------------------------------------------ build_solution, helpers
no_cities == Rows(visibility)

\* mutant: only the current city is excluded
RECURSIVE UnvisitedButCurrent(_, _, _)
UnvisitedButCurrent(city, n, v) ==
    IF city >= n THEN <<>>
    ELSE (IF v[Len(v)] = city THEN <<>> ELSE <<city>>) \o UnvisitedButCurrent(city + 1, n, v)

RECURSIVE Unvisited(_, _, _)
Unvisited(city, n, v) ==
    IF city >= n THEN <<>>
    ELSE (IF SeqContains(v, city) THEN <<>> ELSE <<city>>) \o Unvisited(city + 1, n, v)

Prod(curr, city) ==
    FMul(FPow(pheromones[curr][city], alpha), FPow(visibility[curr][city], beta))

RECURSIVE SumFold(_, _, _, _)
SumFold(curr, cands, k, acc) ==
    IF k > Len(cands) THEN acc
    ELSE SumFold(curr, cands, k + 1, FAdd(acc, Prod(curr, cands[k])))

Sum(curr, cands) == SumFold(curr, cands, 1, Zero)

Probs(curr, cands) ==
    LET sum == Sum(curr, cands)
    IN [k \in 1..Len(cands) |-> <<cands[k], FDiv(Prod(curr, cands[k]), sum)>>]

\* mutant: "acc = probs[i + 1].1" in place of "acc += probs[i + 1].1"
RECURSIVE ChooseLoopNotAccumulating(_, _, _, _)
ChooseLoopNotAccumulating(probs, r, i, acc) ==
    IF FLt(r, acc) \/ i = Len(probs) THEN probs[i][1]
    ELSE ChooseLoopNotAccumulating(probs, r, i + 1, probs[i + 1][2])

RECURSIVE ChooseLoop(_, _, _, _)
ChooseLoop(probs, r, i, acc) ==
    IF FLt(r, acc) \/ i = Len(probs) THEN probs[i][1]
    ELSE ChooseLoop(probs, r, i + 1, FAdd(acc, probs[i + 1][2]))

Choosen(probs, r) == ChooseLoop(probs, r, 1, probs[1][2])

\* an index [[curr, city]] of self.pheromones / self.visibility is out of bounds
SelectPanics(curr, cands) ==
    \E k \in 1..Len(cands) : ~InBounds(pheromones, curr, cands[k])

Last(s) == s[Len(s)]

\* a write to the trace sink returned Err: "?" returns it from run, the locals
\* of run and build_solution are dropped
Abort ==
    /\ pc' = "failed"
    /\ ant' = 0
    /\ visited' = <<>>
    /\ solutions' = <<>>
    /\ solutions_to_return' = <<>>
    /\ costs' = <<>>
    /\ cell' = 0
    /\ rand' = Zero

\* ------------------------------------------------------- AntSystem::run
\* mutant: run evaporates the matrix before the ants build their paths
RunEvaporatingFirst ==
    /\ pc \in {"idle", "done", "failed"}
    /\ runs < MaxRuns
    /\ drawn + size * (no_cities - 1) <= MaxDraws
    /\ runs' = runs + 1
    /\ before' = pheromones
    /\ pheromones' = [r \in DOMAIN pheromones |-> [c \in DOMAIN pheromones[r] |->
                         FMul(rho, pheromones[r][c])]]
    /\ ndraws' = 0
    /\ ant' = 0
    /\ visited' = <<>>
    /\ solutions' = <<>>
    /\ solutions_to_return' = <<>>
    /\ costs' = <<>>
    /\ cell' = 0
    /\ rand' = Zero
    /\ pc' = IF size = 0 THEN "update" ELSE "ants"
    /\ UNCHANGED <<config, visibility, drawn>>

\* entry of run, on a constructed AntSystem: after new, after Ok and after Err
Run ==
    /\ pc \in {"idle", "done", "failed"}
    /\ runs < MaxRuns
    /\ drawn + size * (no_cities - 1) <= MaxDraws
    /\ runs' = runs + 1
    /\ before' = pheromones
    /\ ndraws' = 0
    /\ ant' = 0
    /\ visited' = <<>>
    /\ solutions' = <<>>
    /\ solutions_to_return' = <<>>
    /\ costs' = <<>>
    /\ cell' = 0
    /\ rand' = Zero
    /\ pc' = IF size = 0 THEN "update" ELSE "ants"
    /\ UNCHANGED <<config, visibility, pheromones, drawn>>

\* build_solution up to the loop: visited = [initial], two trace lines
BuildStart ==
    /\ pc = "ants"
    /\ ant < size
    /\ \/ /\ visited' = <<initial>>
          /\ pc' = "select"
          /\ UNCHANGED <<ant, solutions, solutions_to_return, costs, cell, rand>>
       \/ Abort
    /\ UNCHANGED <<config, visibility, pheromones, ndraws, drawn, before, runs>>

\* mutant: the last remaining candidate is appended without a draw
SelectStepSkippingLastDraw ==
    /\ pc = "select"
    /\ Len(visited) # no_cities
    /\ LET curr == Last(visited)
           cands == Unvisited(0, no_cities, visited)
           probs == Probs(curr, cands)
       IN /\ ~SelectPanics(curr, cands)
          /\ \/ /\ Len(cands) = 1
                /\ visited' = Append(visited, cands[1])
                /\ UNCHANGED <<pc, ant, solutions, solutions_to_return, costs, cell, rand, ndraws, drawn>>
             \/ /\ Len(cands) > 1
                /\ \E r \in Draws :
                      /\ ndraws' = ndraws + 1
                      /\ drawn' = drawn + 1
                      /\ \/ /\ rand' = r
                            /\ visited' = Append(visited, Choosen(probs, r))
                            /\ UNCHANGED <<pc, ant, solutions, solutions_to_return, costs, cell>>
                         \/ Abort
             \/ /\ Abort
                /\ UNCHANGED <<ndraws, drawn>>
    /\ UNCHANGED <<config, visibility, pheromones, before, runs>>

\* one iteration of "while visited.len() != no_cities"
SelectStep ==
    /\ pc = "select"
    /\ Len(visited) # no_cities
    /\ LET curr == Last(visited)
           cands == Unvisited(0, no_cities, visited)
           probs == Probs(curr, cands)
       IN /\ ~SelectPanics(curr, cands)
          /\ \/ \E r \in Draws :
                   /\ ndraws' = ndraws + 1
                   /\ drawn' = drawn + 1
                   /\ \/ /\ rand' = r
                         /\ visited' = Append(visited, Choosen(probs, r))
                         /\ UNCHANGED <<pc, ant, solutions, solutions_to_return, costs, cell>>
                      \/ Abort  \* the line of the draw or of the next city fails
             \/ /\ Abort        \* a line before the draw fails
                /\ UNCHANGED <<ndraws, drawn>>
    /\ UNCHANGED <<config, visibility, pheromones, before, runs>>

\* the index panics of the loop body: the process stops
SelectPanic ==
    /\ pc = "select"
    /\ Len(visited) # no_cities
    /\ SelectPanics(Last(visited), Unvisited(0, no_cities, visited))
    /\ pc' = "panicked"
    /\ UNCHANGED <<config, visibility, pheromones, ant, visited, solutions,
                   solutions_to_return, costs, cell, rand, ndraws, drawn, before, runs>>

\* mutant: the matrix is evaporated as soon as an ant has finished its path
BuildFinishUpdating ==
    /\ pc = "select"
    /\ Len(visited) = no_cities
    /\ \/ /\ solutions' = Append(solutions, visited)
          /\ visited' = <<>>
          /\ rand' = Zero
          /\ ant' = ant + 1
          /\ pc' = IF ant + 1 = size THEN "score" ELSE "ants"
          /\ pheromones' = [r \in DOMAIN pheromones |-> [c \in DOMAIN pheromones[r] |->
                               FMul(rho, pheromones[r][c])]]
          /\ UNCHANGED <<solutions_to_return, costs, cell>>
       \/ /\ Abort
          /\ UNCHANGED pheromones
    /\ UNCHANGED <<config, visibility, ndraws, drawn, before, runs>>

\* build_solution after the loop, and solutions.push in run
BuildFinish ==
    /\ pc = "select"
    /\ Len(visited) = no_cities
    /\ \/ /\ solutions' = Append(solutions, visited)
          /\ visited' = <<>>
          /\ rand' = Zero
          /\ ant' = ant + 1
          /\ pc' = IF ant + 1 = size THEN "score" ELSE "ants"
          /\ UNCHANGED <<solutions_to_return, costs, cell>>
       \/ Abort
    /\ UNCHANGED <<config, visibility, pheromones, ndraws, drawn, before, runs>>

CostPanics(solution, d) ==
    \E k \in 1..(Len(solution) - 1) : ~InBounds(d, solution[k], solution[k + 1])

\* one iteration of the second loop of run
Score ==
    /\ pc = "score"
    /\ LET k == Len(solutions_to_return) + 1
           solution == solutions[k]
       IN IF CostPanics(solution, distances)
          THEN /\ pc' = "panicked"
               /\ UNCHANGED <<ant, visited, solutions, solutions_to_return, costs, cell, rand>>
          ELSE \/ /\ solutions_to_return' =
                        Append(solutions_to_return,
                               <<solution, compute_cost(solution, distances)>>)
                  /\ pc' = IF k = size THEN "update" ELSE "score"
                  /\ UNCHANGED <<ant, visited, solutions, costs, cell, rand>>
               \/ Abort
    /\ UNCHANGED <<config, visibility, pheromones, ndraws, drawn, before, runs>>

\* ------------------------------------------------------ update_pheromones
Costs(sols, d) == [a \in 1..Len(sols) |-> compute_cost(sols[a], d)]

\* mutant: a deposit overwrites the deposits of the ants before it
RECURSIVE CellAfterOverwriting(_, _, _, _, _, _)
CellAfterOverwriting(old, sols, cs, r, c, n) ==
    IF n = 0 THEN FMul(rho, old)
    ELSE IF SeqContains(Edges(sols[n]), <<r, c>>)
         THEN FAdd(FMul(rho, old), FDiv(q, cs[n]))
         ELSE CellAfterOverwriting(old, sols, cs, r, c, n - 1)

\* the cell (r, c) after evaporation and the deposits of the first n ants
RECURSIVE CellAfter(_, _, _, _, _, _)
CellAfter(old, sols, cs, r, c, n) ==
    IF n = 0 THEN FMul(rho, old)
    ELSE LET prev == CellAfter(old, sols, cs, r, c, n - 1)
         IN IF SeqContains(Edges(sols[n]), <<r, c>>)
            THEN FAdd(prev, FDiv(q, cs[n]))
            ELSE prev

\* update_pheromones up to the loops: shape, costs and edges
UpdateStart ==
    /\ pc = "update"
    /\ costs' = Costs(solutions, distances)
    /\ cell' = 0
    /\ pc' = IF Rows(pheromones) * Cols(pheromones) = 0 THEN "done" ELSE "cells"
    /\ UNCHANGED <<config, visibility, pheromones, ant, visited, solutions,
                   solutions_to_return, rand, ndraws, drawn, before, runs>>

\* one iteration of "for r ... for c ...": the cell takes size + 2 writes to
\* the trace, the first before the evaporation is stored, one before each
\* ant's deposit and the last after all deposits
UpdateCell ==
    /\ pc = "cells"
    /\ LET r == cell \div Cols(pheromones)
           c == cell % Cols(pheromones)
           old == pheromones[r][c]
       IN \/ /\ pheromones' = [pheromones EXCEPT
                     ![r][c] = CellAfter(old, solutions, costs, r, c, size)]
             /\ cell' = cell + 1
             /\ pc' = IF cell + 1 = Rows(pheromones) * Cols(pheromones)
                      THEN "done" ELSE "cells"
             /\ UNCHANGED <<ant, visited, solutions, solutions_to_return, costs, rand>>
          \/ \E w \in 0..(size + 1) :  \* the writes that succeeded before the Err
                /\ pheromones' = IF w = 0 THEN pheromones
                                 ELSE [pheromones EXCEPT
                                     ![r][c] = CellAfter(old, solutions, costs, r, c,
                                                         w - 1)]
                /\ Abort
    /\ UNCHANGED <<config, visibility, ndraws, drawn, before, runs>>

Next ==
    \/ New
    \/ Run
    \/ BuildStart
    \/ SelectStep
    \/ SelectPanic
    \/ BuildFinish
    \/ Score
    \/ UpdateStart
    \/ UpdateCell

Spec == Init /\ [][Next]_vars

\* ------------------------------------------------------------ properties
n_cities == Rows(distances)

\* the inputs the specification calls valid: a square matrix and a start
\* location in [0, n)
Valid == Square(distances) /\ initial \in 0..(n_cities - 1)

PathOf(k) == solutions_to_return[k][1]
CostOf(k) == solutions_to_return[k][2]

UsesEdge(p, r, c) == \E k \in 1..(Len(p) - 1) : p[k] = r /\ p[k + 1] = c

\* C1: on valid inputs every path returned by run has length n, starts at the
\* configured start location and contains every location exactly once
C1_PathsAreHamiltonian ==
    (pc = "done" /\ Valid) =>
        \A k \in 1..Len(solutions_to_return) :
            /\ Len(PathOf(k)) = n_cities
            /\ PathOf(k)[1] = initial
            /\ \A city \in 0..(n_cities - 1) :
                  Cardinality({i \in 1..Len(PathOf(k)) : PathOf(k)[i] = city}) = 1

C1_Witness ==
    /\ pc = "done"
    /\ Valid
    /\ n_cities = 3
    /\ Len(solutions_to_return) = 2
    /\ PathOf(1) # PathOf(2)

\* C2 as claimed: a colony state exists only for a square cost matrix
C2_ConstructedOnlyIfSquare == (pc # "new") => Square(distances)

\* C2 as amended: new performs no dimension check; for every cost matrix,
\* square or not, it yields a colony state whose pheromone and visibility
\* matrices have the shape of the cost matrix, the pheromone being 0 where
\* row = column and the initial value elsewhere
C2_NewNeverFails ==
    [][(pc = "new") =>
          /\ pc' = "idle"
          /\ DOMAIN pheromones' = DOMAIN distances
          /\ DOMAIN visibility' = DOMAIN distances
          /\ \A i \in DOMAIN distances :
                /\ DOMAIN pheromones'[i] = DOMAIN distances[i]
                /\ DOMAIN visibility'[i] = DOMAIN distances[i]
                /\ \A j \in DOMAIN distances[i] :
                      pheromones'[i][j] = IF i = j THEN Zero ELSE initial_pheromone]_vars

C2_Witness ==
    /\ pc = "idle"
    /\ runs = 0
    /\ Rows(distances) = 2
    /\ Cols(distances) = 3
    /\ pheromones[1][2] = One

\* start + Q / cost(a) for the ants a <= n whose returned path has the edge
\* (r, c), added one after the other in ant order
RECURSIVE DepositSum(_, _, _, _)
DepositSum(start, r, c, n) ==
    IF n = 0 THEN start
    ELSE LET prev == DepositSum(start, r, c, n - 1)
         IN IF UsesEdge(PathOf(n), r, c) THEN FAdd(prev, FDiv(q, CostOf(n)))
            ELSE prev

\* C3: after a successful run every cell (r, c) holds rho * old(r, c) plus
\* Q / cost for exactly the ants whose path has the edge (r, c): rho * old
\* with no such ant, rho * old + Q / k with one, rho * old + Q / k1 + Q / k2
\* with two
C3_UpdateRule ==
    (pc = "done") =>
        \A r \in DOMAIN pheromones : \A c \in DOMAIN pheromones[r] :
            pheromones[r][c] =
                DepositSum(FMul(rho, before[r][c]), r, c, Len(solutions_to_return))

C3_Witness ==
    /\ pc = "done"
    /\ Valid
    /\ n_cities = 3
    /\ rho = F(1, 2)
    /\ Len(solutions_to_return) = 2
    /\ \E r, c \in 0..2 :
          /\ UsesEdge(PathOf(1), r, c)
          /\ UsesEdge(PathOf(2), r, c)
          /\ pheromones[r][c] =
                FAdd(FAdd(FMul(rho, before[r][c]), FDiv(q, CostOf(1))),
                       FDiv(q, CostOf(2)))
    /\ \E r, c \in 0..2 :
          /\ r # c
          /\ ~UsesEdge(PathOf(1), r, c)
          /\ ~UsesEdge(PathOf(2), r, c)
          /\ before[r][c] # Zero

\* C4: every diagonal pheromone cell is 0 in every state after construction
C4_DiagonalZero ==
    (pc # "new") =>
        \A i \in DOMAIN pheromones :
            (i \in DOMAIN pheromones[i]) => pheromones[i][i] = Zero

C4_Witness ==
    /\ pc = "done"
    /\ Valid
    /\ runs = 2
    /\ n_cities = 3
    /\ \E r, c \in 0..2 : r # c /\ FLt(initial_pheromone, pheromones[r][c])
    /\ \A i \in 0..2 : pheromones[i][i] = Zero

\* C5: a write failure before the pheromone update ends the call with the
\* error, without a result, and leaves the pheromone matrix as it was at the
\* entry of the call
C5_FailureBeforeUpdate ==
    [][(pc \in {"ants", "select", "score"} /\ pc' = "failed") =>
          /\ pheromones' = before
          /\ pheromones' = pheromones
          /\ solutions_to_return' = <<>>]_vars

C5_Witness ==
    /\ pc = "failed"
    /\ Valid
    /\ n_cities = 3
    /\ size = 2
    /\ ndraws = 3
    /\ pheromones = before

\* C[p[1]][p[2]] + ... + C[p[k]][p[k + 1]], added from the left
RECURSIVE OpenSum(_, _)
OpenSum(p, k) ==
    IF k = 0 THEN Zero
    ELSE FAdd(OpenSum(p, k - 1), distances[p[k]][p[k + 1]])

\* C6: every returned cost is the sum of the costs of the n - 1 consecutive
\* edges of the path, without the edge back to the start, and is the cost
\* the pheromone update divides Q by
C6_OpenPathCost ==
    (pc = "done") =>
        \A a \in 1..Len(solutions_to_return) :
            /\ CostOf(a) = OpenSum(PathOf(a), Len(PathOf(a)) - 1)
            /\ costs[a] = CostOf(a)

C6_Witness ==
    /\ pc = "done"
    /\ Valid
    /\ n_cities = 3
    /\ Len(solutions_to_return) >= 1
    /\ PathOf(1) = <<0, 1, 2>>
    /\ CostOf(1) = FInt(6)
    /\ distances[2][0] = FInt(3)

\* the unvisited candidates, as a set
Candidates(v) == {city \in 0..(no_cities - 1) : ~SeqContains(v, city)}

ProbOf(v, city) ==
    FDiv(Prod(Last(v), city), Sum(Last(v), Unvisited(0, no_cities, v)))

\* the probabilities of the candidates in C, added in ascending index order
RECURSIVE Mass(_, _)
Mass(v, C) ==
    LET c == CHOOSE x \in C : \A y \in C : y <= x
    IN IF C = {c} THEN ProbOf(v, c)
       ELSE FAdd(Mass(v, C \ {c}), ProbOf(v, c))

\* the probability of city and of every unvisited candidate of lower index
MassUpTo(v, city) == Mass(v, {c \in Candidates(v) : c <= city})

Lowest(S) == CHOOSE x \in S : \A y \in S : x <= y
Highest(S) == CHOOSE x \in S : \A y \in S : y <= x

Selected(v, r) ==
    LET over == {city \in Candidates(v) : FLt(r, MassUpTo(v, city))}
    IN IF over # {} THEN Lowest(over) ELSE Highest(Candidates(v))

\* a finite weight above 0
Positive(x) == ~IsNaN(x) /\ ~IsInf(x) /\ FLt(Zero, x)

\* C8: every selection step with draw r appends the lowest unvisited
\* candidate whose accumulated probability is strictly greater than r, or
\* the highest unvisited candidate when there is none; with positive weights
\* a draw of 0 selects the lowest unvisited candidate
C8_RouletteSelection ==
    [][(pc = "select" /\ pc' = "select" /\ Len(visited') = Len(visited) + 1) =>
          /\ Last(visited') = Selected(visited, rand')
          /\ (rand' = Zero /\ \A city \in Candidates(visited) :
                                 Positive(Prod(Last(visited), city)))
                => Last(visited') = Lowest(Candidates(visited))]_vars

\* a step with three candidates that took the middle one: the draw is not
\* below the probability of the lowest candidate, nor below the probability
\* of the middle one alone, and is below the sum of the two
C8_Witness ==
    /\ pc = "select"
    /\ Valid
    /\ n_cities = 4
    /\ Len(visited) = 2
    /\ Cardinality(Candidates(<<initial>>)) = 3
    /\ visited[2] # Lowest(Candidates(<<initial>>))
    /\ visited[2] # Highest(Candidates(<<initial>>))
    /\ FLt(Zero, rand)
    /\ ~FLt(rand, MassUpTo(<<initial>>, Lowest(Candidates(<<initial>>))))
    /\ ~FLt(rand, ProbOf(<<initial>>, visited[2]))
    /\ FLt(rand, MassUpTo(<<initial>>, visited[2]))

Distinct(v) == \A i, j \in 1..Len(v) : i # j => v[i] # v[j]

\* C9: on valid inputs an ant's path is complete after exactly n - 1
\* selection steps, each appending one location not yet visited and each
\* consuming one draw, so a run of N ants consumes N * (n - 1) draws
C9_StepsAndDraws ==
    Valid =>
        /\ (pc = "ants") => ndraws = ant * (n_cities - 1)
        /\ (pc = "select") =>
              /\ Len(visited) \in 1..n_cities
              /\ Distinct(visited)
              /\ ndraws = ant * (n_cities - 1) + (Len(visited) - 1)
              /\ (Len(visited) < n_cities) =>
                    /\ Len(Unvisited(0, no_cities, visited)) = n_cities - Len(visited)
                    /\ ~SelectPanics(Last(visited), Unvisited(0, no_cities, visited))
        /\ (pc \in {"score", "update", "cells", "done"}) => ndraws = size * (n_cities - 1)

C9_Witness ==
    /\ pc = "done"
    /\ Valid
    /\ n_cities = 3
    /\ size = 2
    /\ ndraws = 4

\* C10: the ants of a round build their paths in index order, the pheromone
\* matrix keeps its value of the entry of the call until all N paths are
\* built and scored, the update then passes once over the cells, and run
\* returns the N (path, cost) pairs in ant order
C10_UpdateAfterAllPaths ==
    [][/\ (pheromones' # pheromones) => (pc \in {"new", "cells"})
       /\ (pc' \in {"ants", "select", "score", "update"}) => pheromones' = before'
       /\ (pc' \in {"ants", "select"}) =>
             (Len(solutions') = ant' /\ ant' < size /\ solutions_to_return' = <<>>)
       /\ (pc = "select" /\ Len(solutions') = Len(solutions) + 1) =>
             (solutions' = Append(solutions, visited) /\ ant' = ant + 1)
       /\ (pc' \in {"update", "cells", "done"}) =>
             /\ Len(solutions') = size
             /\ Len(solutions_to_return') = size
             /\ \A a \in 1..size : solutions_to_return'[a][1] = solutions'[a]
       /\ (pc = "cells") =>
             /\ \A r \in DOMAIN pheromones : \A c \in DOMAIN pheromones[r] :
                   (r * Cols(pheromones) + c # cell) =>
                       pheromones'[r][c] = pheromones[r][c]
             /\ (pc' = "cells") => cell' = cell + 1
             /\ (pc' = "done") => cell' = Rows(pheromones) * Cols(pheromones)]_vars

C10_Witness ==
    /\ pc = "done"
    /\ Valid
    /\ n_cities = 3
    /\ size = 2
    /\ solutions[1] # solutions[2]
    /\ pheromones # before
    /\ solutions_to_return[2][1] = solutions[2]

====
